---- MODULE Spec2Model ----
(***************************************************************************)
(* The transport registry of src/main.py: Vehicle, Route, Passenger and    *)
(* Schedule records, the TransportSystem registry with its CRUD methods,   *)
(* and the JSON save/load pair.                                            *)
(*                                                                         *)
(* Python objects have identity: a Route or a Vehicle is a cell of a heap  *)
(* (routeObjs, vehicleObjs) and the lists hold references to the cells, so *)
(* the same object may sit in a list twice and a mutation through one      *)
(* reference is seen through the other.  Passengers and schedules are      *)
(* never mutated nor compared by identity; they are kept by value.         *)
(***************************************************************************)
EXTENDS Integers, Sequences, FiniteSets, TLC

\* ------------------------------------------------------------------ bounds
MaxRoutes == 2
MaxVehicles == 2
MaxPassengers == 1
MaxSchedules == 1

\* The values the caller draws constructor arguments from.
RouteIds == {1, 2}
Numbers == {"t77"}
StartPoints == {"A"}
EndPoints == {"B", "C"}
VehicleIds == {1, 2}
VehicleModels == {"NefAZ"}
Capacities == {77}
VehicleTypes == {"Bus"}
PassengerIds == {1, 2}
PassengerNames == {"Ivan"}
CardNumbers == {"0021095222"}
ScheduleIds == {1}
ScheduleRouteIds == {3}
DepartureTimes == {"08:00"}
ArrivalTimes == {"08:45"}

NoRef == 0

VARIABLES routeObjs, vehicleObjs, transport_system, new_system, file, result

vars == <<routeObjs, vehicleObjs, transport_system, new_system, file, result>>

\* ------------------------------------------------------------ sequences
Min(S) == CHOOSE x \in S : \A y \in S : x <= y

\* The scan "for e in s: if <test>: return": hits are the indices of the
\* elements of s that pass the test; the index of the first of them, 0 if the
\* loop runs to its end.
IndexOf(hits) == IF hits = {} THEN 0 ELSE Min(hits)

\* s without its element at index i.
RemoveAt(s, i) == [j \in 1..(Len(s) - 1) |-> IF j < i THEN s[j] ELSE s[j + 1]]

\* list.remove(x): drops the first element equal to x (object equality is
\* identity: none of the classes defines __eq__).
list_remove(s, x) == RemoveAt(s, IndexOf({i \in DOMAIN s : s[i] = x}))

Range(s) == {s[i] : i \in DOMAIN s}

\* ------------------------------------------------------------- entities
Vehicle(vehicle_id, model, capacity, vehicle_type) ==
    [vehicle_id |-> vehicle_id, model |-> model, capacity |-> capacity,
     type |-> vehicle_type]

Route(route_id, number, start_point, end_point) ==
    [route_id |-> route_id, number |-> number, start_point |-> start_point,
     end_point |-> end_point, vehicles |-> <<>>]

Passenger(passenger_id, name, card_number) ==
    [passenger_id |-> passenger_id, name |-> name, card_number |-> card_number]

Schedule(schedule_id, route_id, departure_time, arrival_time) ==
    [schedule_id |-> schedule_id, route_id |-> route_id,
     departure_time |-> departure_time, arrival_time |-> arrival_time]

TransportSystem == [routes |-> <<>>, passengers |-> <<>>, schedules |-> <<>>]

\* isinstance(arg, cls): every argument carries the class it was built from.
isinstance(arg, cls) == arg.cls = cls

\* ---------------------------------------------------------- Route methods
\* A Route method runs on the route object r of the heap rObjs (its self); the
\* vehicles are the cells of vObjs.

\* Route.find_vehicle: the first vehicle of the list with that id, or None.
find_vehicle(rObjs, vObjs, r, vehicle_id) ==
    LET vehicles == rObjs[r].vehicles
        i == IndexOf({j \in DOMAIN vehicles :
                        vObjs[vehicles[j]].vehicle_id = vehicle_id})
    IN IF i = 0 THEN NoRef ELSE vehicles[i]

\* Route.add_vehicle: [raised, rObjs].
add_vehicle(rObjs, r, arg) ==
    IF ~isinstance(arg, "Vehicle")
    THEN [raised |-> "InvalidDataError", rObjs |-> rObjs]
    ELSE [raised |-> "",
          rObjs |-> [rObjs EXCEPT ![r].vehicles = Append(@, arg.ref)]]

\* Route.remove_vehicle: [raised, rObjs].
remove_vehicle(rObjs, vObjs, r, vehicle_id) ==
    LET vehicle == find_vehicle(rObjs, vObjs, r, vehicle_id)
    IN IF vehicle # NoRef
       THEN [raised |-> "",
             rObjs |-> [rObjs EXCEPT ![r].vehicles = list_remove(@, vehicle)]]
       ELSE [raised |-> "VehicleNotFoundError", rObjs |-> rObjs]

\* ------------------------------------------------- TransportSystem methods
\* A TransportSystem method runs on the registry record self; the routes of
\* self.routes are cells of rObjs.

\* TransportSystem.find_route: the first route of the list with that id, or None.
find_route(rObjs, self, route_id) ==
    LET i == IndexOf({j \in DOMAIN self.routes :
                        rObjs[self.routes[j]].route_id = route_id})
    IN IF i = 0 THEN NoRef ELSE self.routes[i]

\* TransportSystem.read_route: [raised, ret].
read_route(rObjs, self, route_id) ==
    LET route == find_route(rObjs, self, route_id)
    IN IF route # NoRef
       THEN [raised |-> "", ret |-> route]
       ELSE [raised |-> "RouteNotFoundError", ret |-> NoRef]

\* A create_route that puts the route at the head of the list.
create_route_at_head(self, arg) ==
    IF ~isinstance(arg, "Route")
    THEN [raised |-> "InvalidDataError", self |-> self]
    ELSE [raised |-> "", self |-> [self EXCEPT !.routes = <<arg.ref>> \o @]]

\* TransportSystem.create_route: [raised, self].
create_route(self, arg) ==
    IF ~isinstance(arg, "Route")
    THEN [raised |-> "InvalidDataError", self |-> self]
    ELSE [raised |-> "", self |-> [self EXCEPT !.routes = Append(@, arg.ref)]]

\* An update_route without the hasattr test.
hasattr_any(route, key) == TRUE

\* hasattr(route, key): the fields of the record are the instance attributes
\* that Route.__init__ sets.
hasattr(route, key) == key \in DOMAIN route

\* A loop of update_route that never rebinds the attribute number.
setattrs_but_number(route, kwargs) ==
    LET keys == {key \in DOMAIN kwargs : hasattr(route, key)} \ {"number"}
    IN [key \in DOMAIN route \cup keys |->
           IF key \in keys THEN kwargs[key] ELSE route[key]]

\* The loop of update_route: setattr(route, key, value) for every key of
\* kwargs that passes the hasattr test; setattr binds the attribute key,
\* whether the object had it or not.
setattrs(route, kwargs) ==
    LET keys == {key \in DOMAIN kwargs : hasattr(route, key)}
    IN [key \in DOMAIN route \cup keys |->
           IF key \in keys THEN kwargs[key] ELSE route[key]]

\* TransportSystem.update_route: [raised, rObjs, self].
update_route(rObjs, self, route_id, kwargs) ==
    LET found == read_route(rObjs, self, route_id)
    IN IF found.raised # ""
       THEN [raised |-> found.raised, rObjs |-> rObjs, self |-> self]
       ELSE [raised |-> "", self |-> self,
             rObjs |-> [rObjs EXCEPT ![found.ret] = setattrs(@, kwargs)]]

\* TransportSystem.delete_route: [raised, self].
delete_route(rObjs, self, route_id) ==
    LET found == read_route(rObjs, self, route_id)
    IN IF found.raised # ""
       THEN [raised |-> found.raised, self |-> self]
       ELSE [raised |-> "",
             self |-> [self EXCEPT !.routes = list_remove(@, found.ret)]]

\* TransportSystem.create_passenger: [raised, self].
create_passenger(self, arg) ==
    IF ~isinstance(arg, "Passenger")
    THEN [raised |-> "InvalidDataError", self |-> self]
    ELSE [raised |-> "",
          self |-> [self EXCEPT !.passengers = Append(@, arg.obj)]]

\* TransportSystem.read_passenger: [raised, ret] (ret: the index of the
\* passenger in self.passengers).
read_passenger(self, passenger_id) ==
    LET i == IndexOf({j \in DOMAIN self.passengers :
                        self.passengers[j].passenger_id = passenger_id})
    IN IF i # 0 THEN [raised |-> "", ret |-> i]
       ELSE [raised |-> "TransportError", ret |-> 0]

\* transport_system.schedules.extend(batch), the caller's own list call.
schedules_extend(self, batch) == [self EXCEPT !.schedules = @ \o batch]

\* -------------------------------------------------------- dictionary forms
\* A dictionary is a function from its keys; data['k'] raises KeyError when k
\* is no key, and data.get('k', []) gives the default.
HasKeys(data, keys) == keys \subseteq DOMAIN data

dict_get(data, key, default) == IF key \in DOMAIN data THEN data[key] ELSE default

\* Vehicle.to_dict
Vehicle_to_dict(vehicle) ==
    [vehicle_id |-> vehicle.vehicle_id, model |-> vehicle.model,
     capacity |-> vehicle.capacity, type |-> vehicle.type]

\* A Route.to_dict that writes the two end points under each other's key.
Route_to_dict_swapped(vObjs, route) ==
    [route_id |-> route.route_id, number |-> route.number,
     start_point |-> route.end_point, end_point |-> route.start_point,
     vehicles |-> [i \in DOMAIN route.vehicles |->
                      Vehicle_to_dict(vObjs[route.vehicles[i]])]]

\* Route.to_dict
Route_to_dict(vObjs, route) ==
    [route_id |-> route.route_id, number |-> route.number,
     start_point |-> route.start_point, end_point |-> route.end_point,
     vehicles |-> [i \in DOMAIN route.vehicles |->
                      Vehicle_to_dict(vObjs[route.vehicles[i]])]]

\* Passenger.to_dict
Passenger_to_dict(passenger) ==
    [passenger_id |-> passenger.passenger_id, name |-> passenger.name,
     card_number |-> passenger.card_number]

\* Schedule.to_dict
Schedule_to_dict(schedule) ==
    [schedule_id |-> schedule.schedule_id, route_id |-> schedule.route_id,
     departure_time |-> schedule.departure_time,
     arrival_time |-> schedule.arrival_time]

\* The from_dict class methods give [raised, ...]: "KeyError" when a key the
\* method subscripts is missing.
VehicleKeys == {"vehicle_id", "model", "capacity", "type"}
RouteKeys == {"route_id", "number", "start_point", "end_point"}
PassengerKeys == {"passenger_id", "name", "card_number"}
ScheduleKeys == {"schedule_id", "route_id", "departure_time", "arrival_time"}

\* Vehicle.from_dict: [raised, obj].
Vehicle_from_dict(data) ==
    IF ~HasKeys(data, VehicleKeys) THEN [raised |-> "KeyError"]
    ELSE [raised |-> "",
          obj |-> Vehicle(data.vehicle_id, data.model, data.capacity, data.type)]

RECURSIVE add_vehicles_from(_, _, _, _)
\* The loop of Route.from_dict over data.get('vehicles', []): every vehicle is
\* built and added to the route r in turn. [raised, rObjs, vObjs].
add_vehicles_from(rObjs, vObjs, r, vehicles_data) ==
    IF vehicles_data = <<>> THEN [raised |-> "", rObjs |-> rObjs, vObjs |-> vObjs]
    ELSE LET built == Vehicle_from_dict(Head(vehicles_data))
         IN IF built.raised # ""
            THEN [raised |-> built.raised, rObjs |-> rObjs, vObjs |-> vObjs]
            ELSE LET v == Len(vObjs) + 1
                     added == add_vehicle(rObjs, r, [cls |-> "Vehicle", ref |-> v])
                 IN add_vehicles_from(added.rObjs, Append(vObjs, built.obj), r,
                                      Tail(vehicles_data))

\* Route.from_dict: [raised, ret, rObjs, vObjs] (ret: the new route).
Route_from_dict(rObjs, vObjs, data) ==
    IF ~HasKeys(data, RouteKeys)
    THEN [raised |-> "KeyError", ret |-> NoRef, rObjs |-> rObjs, vObjs |-> vObjs]
    ELSE LET r == Len(rObjs) + 1
             route == Route(data.route_id, data.number, data.start_point,
                            data.end_point)
             filled == add_vehicles_from(Append(rObjs, route), vObjs, r,
                                         dict_get(data, "vehicles", <<>>))
         IN [raised |-> filled.raised, ret |-> r, rObjs |-> filled.rObjs,
             vObjs |-> filled.vObjs]

\* Passenger.from_dict: [raised, obj].
Passenger_from_dict(data) ==
    IF ~HasKeys(data, PassengerKeys) THEN [raised |-> "KeyError"]
    ELSE [raised |-> "",
          obj |-> Passenger(data.passenger_id, data.name, data.card_number)]

\* Schedule.from_dict: [raised, obj].
Schedule_from_dict(data) ==
    IF ~HasKeys(data, ScheduleKeys) THEN [raised |-> "KeyError"]
    ELSE [raised |-> "",
          obj |-> Schedule(data.schedule_id, data.route_id,
                           data.departure_time, data.arrival_time)]

\* ------------------------------------------------------------------- JSON
\* The text of a JSON file, as the tree of its values.
JNumber(n) == [j |-> "number", n |-> n]
JString(str) == [j |-> "string", s |-> str]
JArray(items) == [j |-> "array", items |-> items]
JObject(members) == [j |-> "object", members |-> members]

\* The keys whose values are int (the constructors' annotations); the other
\* scalar fields are str.
IntKeys == {"vehicle_id", "capacity", "route_id", "passenger_id", "schedule_id"}

RECURSIVE json_dump_dict(_)
\* json.dump of an entity's dictionary: an int is written as a number, a str
\* as a string (ensure_ascii=False: as it is), the vehicles list as an array
\* of objects.
json_dump_dict(data) ==
    JObject([key \in DOMAIN data |->
        IF key = "vehicles"
        THEN JArray([i \in DOMAIN data[key] |-> json_dump_dict(data[key][i])])
        ELSE IF key \in IntKeys THEN JNumber(data[key])
        ELSE JString(data[key])])

\* json.dump of the dictionary save_to_json builds.
json_dump(data) ==
    JObject([key \in DOMAIN data |->
        JArray([i \in DOMAIN data[key] |-> json_dump_dict(data[key][i])])])

RECURSIVE json_load(_)
\* json.load: a number gives an int, a string a str, an array a list, an
\* object a dict.
json_load(text) ==
    CASE text.j = "number" -> text.n
      [] text.j = "string" -> text.s
      [] text.j = "array" -> [i \in DOMAIN text.items |-> json_load(text.items[i])]
      [] text.j = "object" ->
            [key \in DOMAIN text.members |-> json_load(text.members[key])]

\* A file of the working directory: none, one that is no JSON text, or a text.
NoFile == [exists |-> FALSE, json |-> FALSE, text |-> <<>>]
Malformed == [exists |-> TRUE, json |-> FALSE, text |-> <<>>]
JsonFile(text) == [exists |-> TRUE, json |-> TRUE, text |-> text]

\* TransportSystem.save_to_json: the file it leaves.
save_to_json(rObjs, vObjs, self) ==
    LET data ==
          [routes |-> [i \in DOMAIN self.routes |->
                          Route_to_dict(vObjs, rObjs[self.routes[i]])],
           passengers |-> [i \in DOMAIN self.passengers |->
                              Passenger_to_dict(self.passengers[i])],
           schedules |-> [i \in DOMAIN self.schedules |->
                             Schedule_to_dict(self.schedules[i])]]
    IN JsonFile(json_dump(data))

RECURSIVE routes_from(_, _, _)
\* [Route.from_dict(route_data) for route_data in ...]:
\* [raised, ret, rObjs, vObjs] (ret: the list of the new routes).
routes_from(rObjs, vObjs, routes_data) ==
    IF routes_data = <<>>
    THEN [raised |-> "", ret |-> <<>>, rObjs |-> rObjs, vObjs |-> vObjs]
    ELSE LET built == Route_from_dict(rObjs, vObjs, Head(routes_data))
         IN IF built.raised # ""
            THEN [raised |-> built.raised, ret |-> <<>>, rObjs |-> built.rObjs,
                  vObjs |-> built.vObjs]
            ELSE LET rest == routes_from(built.rObjs, built.vObjs, Tail(routes_data))
                 IN [rest EXCEPT !.ret = <<built.ret>> \o @]

\* [X.from_dict(d) for d in ...] for the entities kept by value: [raised, ret].
objects_from(From_dict(_), list) ==
    LET built == [i \in DOMAIN list |-> From_dict(list[i])]
    IN IF \E i \in DOMAIN list : built[i].raised # ""
       THEN [raised |-> "KeyError", ret |-> <<>>]
       ELSE [raised |-> "", ret |-> [i \in DOMAIN list |-> built[i].obj]]

\* A load_from_json that extends the lists where the code assigns them.
assign_extending(self, attr, list) == [self EXCEPT ![attr] = @ \o list]

\* The assignment self.<attr> = [...] of load_from_json.
assign(self, attr, list) == [self EXCEPT ![attr] = list]

\* TransportSystem.load_from_json: [raised, rObjs, vObjs, self].  The three
\* assignments run in turn, so an exception leaves the ones before it done.
load_from_json(rObjs, vObjs, self, f) ==
    IF ~f.exists \/ ~f.json
    THEN [raised |-> "FileOperationError", rObjs |-> rObjs, vObjs |-> vObjs,
          self |-> self]
    ELSE
    LET data == json_load(f.text)
        routes == routes_from(rObjs, vObjs, dict_get(data, "routes", <<>>))
        self1 == assign(self, "routes", routes.ret)
        passengers == objects_from(Passenger_from_dict,
                                   dict_get(data, "passengers", <<>>))
        self2 == assign(self1, "passengers", passengers.ret)
        schedules == objects_from(Schedule_from_dict,
                                  dict_get(data, "schedules", <<>>))
        self3 == assign(self2, "schedules", schedules.ret)
    IN IF routes.raised # ""
       THEN [raised |-> "FileOperationError", rObjs |-> rObjs, vObjs |-> vObjs,
             self |-> self]
       ELSE IF passengers.raised # ""
       THEN [raised |-> "FileOperationError", rObjs |-> routes.rObjs,
             vObjs |-> routes.vObjs, self |-> self1]
       ELSE IF schedules.raised # ""
       THEN [raised |-> "FileOperationError", rObjs |-> routes.rObjs,
             vObjs |-> routes.vObjs, self |-> self2]
       ELSE [raised |-> "", rObjs |-> routes.rObjs, vObjs |-> routes.vObjs,
             self |-> self3]

\* ------------------------------------------------------------------ state
\* What the last call was and how it ended: the exception it raised, "" when
\* it returned.
Result(op, raised) == [op |-> op, raised |-> raised]

RECURSIVE Dedup(_)
\* The elements of s, each once, in the order of their first occurrence.
Dedup(s) ==
    IF s = <<>> THEN <<>>
    ELSE LET front == Dedup(SubSeq(s, 1, Len(s) - 1))
             last == s[Len(s)]
         IN IF last \in Range(front) THEN front ELSE Append(front, last)

RECURSIVE Flatten(_)
\* The concatenation of a sequence of sequences.
Flatten(ss) == IF ss = <<>> THEN <<>> ELSE Head(ss) \o Flatten(Tail(ss))

Position(s, x) == CHOOSE i \in DOMAIN s : s[i] = x

\* The objects the program can still reach through the two registries, in the
\* order in which a walk of the registries meets them.
ReachableRoutes(ts, ns) == Dedup(ts.routes \o ns.routes)

ReachableVehicles(rObjs, routes) ==
    Dedup(Flatten([i \in DOMAIN routes |-> rObjs[routes[i]].vehicles]))

\* The heaps and registries a call leaves, as a state.  A cell nothing refers
\* to is freed (CPython's reference counts), and the addresses of the others
\* cannot be observed (no code calls id() or hashes an entity), so the
\* reachable cells are renamed 1..n in the order of the walk: two heaps that
\* differ only in their addresses are one state.
Canonical(rObjs, vObjs, ts, ns) ==
    LET routes == ReachableRoutes(ts, ns)
        vehicles == ReachableVehicles(rObjs, routes)
        rNames(s) == [i \in DOMAIN s |-> Position(routes, s[i])]
        vNames(s) == [i \in DOMAIN s |-> Position(vehicles, s[i])]
    IN [routeObjs |-> [n \in DOMAIN routes |->
                          [rObjs[routes[n]] EXCEPT !.vehicles = vNames(@)]],
        vehicleObjs |-> [n \in DOMAIN vehicles |-> vObjs[vehicles[n]]],
        transport_system |-> [ts EXCEPT !.routes = rNames(@)],
        new_system |-> [ns EXCEPT !.routes = rNames(@)]]

Commit(rObjs, vObjs, ts, ns) ==
    LET state == Canonical(rObjs, vObjs, ts, ns)
    IN /\ routeObjs' = state.routeObjs
       /\ vehicleObjs' = state.vehicleObjs
       /\ transport_system' = state.transport_system
       /\ new_system' = state.new_system

Init ==
    /\ routeObjs = <<>>
    /\ vehicleObjs = <<>>
    /\ transport_system = TransportSystem
    /\ new_system = TransportSystem
    /\ file = NoFile
    /\ result = Result("init", "")

\* ---------------------------------------------------------------- actions
\* The routes the caller holds: those of the registry.
Routes == Range(transport_system.routes)

\* The entries of the vehicle lists of all routes together.
VehicleCount ==
    Len(Flatten([r \in DOMAIN routeObjs |-> routeObjs[r].vehicles]))

\* route.add_vehicle(Vehicle(...)) with a vehicle built for the call.
AddNewVehicle ==
    \E r \in Routes, vehicle_id \in VehicleIds, model \in VehicleModels,
       capacity \in Capacities, type \in VehicleTypes :
        /\ VehicleCount < MaxVehicles
        /\ LET v == Len(vehicleObjs) + 1
               vObjs == Append(vehicleObjs, Vehicle(vehicle_id, model, capacity, type))
               call == add_vehicle(routeObjs, r, [cls |-> "Vehicle", ref |-> v])
           IN /\ Commit(call.rObjs, vObjs, transport_system, new_system)
              /\ result' = Result("add_vehicle", call.raised)
        /\ UNCHANGED file

\* route.add_vehicle(v) with a vehicle the route already holds.
AddSameVehicle ==
    \E r \in Routes :
      \E v \in Range(routeObjs[r].vehicles) :
        /\ VehicleCount < MaxVehicles
        /\ LET call == add_vehicle(routeObjs, r, [cls |-> "Vehicle", ref |-> v])
           IN /\ Commit(call.rObjs, vehicleObjs, transport_system, new_system)
              /\ result' = Result("add_vehicle", call.raised)
        /\ UNCHANGED file

\* route.add_vehicle("invalid_data").
AddInvalidVehicle ==
    \E r \in Routes :
        /\ LET call == add_vehicle(routeObjs, r, [cls |-> "str", ref |-> NoRef])
           IN /\ Commit(call.rObjs, vehicleObjs, transport_system, new_system)
              /\ result' = Result("add_vehicle", call.raised)
        /\ UNCHANGED file

\* route.remove_vehicle(vehicle_id).
RemoveVehicle ==
    \E r \in Routes, vehicle_id \in VehicleIds :
        /\ LET call == remove_vehicle(routeObjs, vehicleObjs, r, vehicle_id)
           IN /\ Commit(call.rObjs, vehicleObjs, transport_system, new_system)
              /\ result' = Result("remove_vehicle", call.raised)
        /\ UNCHANGED file

\* transport_system.create_route(Route(...)) with a route built for the call.
CreateNewRoute ==
    \E route_id \in RouteIds, number \in Numbers, start_point \in StartPoints,
       end_point \in EndPoints :
        /\ Len(transport_system.routes) < MaxRoutes
        /\ LET r == Len(routeObjs) + 1
               rObjs == Append(routeObjs, Route(route_id, number, start_point, end_point))
               call == create_route(transport_system, [cls |-> "Route", ref |-> r])
           IN /\ Commit(rObjs, vehicleObjs, call.self, new_system)
              /\ result' = Result("create_route", call.raised)
        /\ UNCHANGED file

\* transport_system.create_route(r) with a route the registry already holds.
CreateSameRoute ==
    \E r \in Routes :
        /\ Len(transport_system.routes) < MaxRoutes
        /\ LET call == create_route(transport_system, [cls |-> "Route", ref |-> r])
           IN /\ Commit(routeObjs, vehicleObjs, call.self, new_system)
              /\ result' = Result("create_route", call.raised)
        /\ UNCHANGED file

\* transport_system.create_route("invalid_data").
CreateInvalidRoute ==
    /\ LET call == create_route(transport_system, [cls |-> "str", ref |-> NoRef])
       IN /\ Commit(routeObjs, vehicleObjs, call.self, new_system)
          /\ result' = Result("create_route", call.raised)
    /\ UNCHANGED file

\* transport_system.read_route(route_id).
ReadRoute ==
    \E route_id \in RouteIds :
        /\ result' = Result("read_route",
                            read_route(routeObjs, transport_system, route_id).raised)
        /\ UNCHANGED <<routeObjs, vehicleObjs, transport_system, new_system, file>>

\* The keyword arguments the caller passes to update_route: an attribute of a
\* route, a key that is none, or both.
Kwargs ==
    {[end_point |-> e] : e \in EndPoints}
    \cup {[route_id |-> i] : i \in RouteIds}
    \cup {[number |-> n, start_point |-> p] : n \in Numbers, p \in StartPoints}
    \cup {[vehicles |-> <<>>]}
    \cup {[color |-> "red"]}
    \cup {[end_point |-> e, color |-> "red"] : e \in EndPoints}

\* transport_system.update_route(route_id, **kwargs).
UpdateRoute ==
    \E route_id \in RouteIds, kwargs \in Kwargs :
        /\ LET call == update_route(routeObjs, transport_system, route_id, kwargs)
           IN /\ Commit(call.rObjs, vehicleObjs, call.self, new_system)
              /\ result' = Result("update_route", call.raised)
        /\ UNCHANGED file

\* transport_system.delete_route(route_id).
DeleteRoute ==
    \E route_id \in RouteIds :
        /\ LET call == delete_route(routeObjs, transport_system, route_id)
           IN /\ Commit(routeObjs, vehicleObjs, call.self, new_system)
              /\ result' = Result("delete_route", call.raised)
        /\ UNCHANGED file

\* transport_system.create_passenger(Passenger(...)).
CreatePassenger ==
    \E passenger_id \in PassengerIds, name \in PassengerNames,
       card_number \in CardNumbers :
        /\ Len(transport_system.passengers) < MaxPassengers
        /\ LET call == create_passenger(transport_system,
                           [cls |-> "Passenger",
                            obj |-> Passenger(passenger_id, name, card_number)])
           IN /\ transport_system' = call.self
              /\ result' = Result("create_passenger", call.raised)
        /\ UNCHANGED <<routeObjs, vehicleObjs, new_system, file>>

\* transport_system.create_passenger("invalid_data").
CreateInvalidPassenger ==
    /\ LET call == create_passenger(transport_system, [cls |-> "str"])
       IN /\ transport_system' = call.self
          /\ result' = Result("create_passenger", call.raised)
    /\ UNCHANGED <<routeObjs, vehicleObjs, new_system, file>>

\* transport_system.read_passenger(passenger_id).
ReadPassenger ==
    \E passenger_id \in PassengerIds :
        /\ result' = Result("read_passenger",
                            read_passenger(transport_system, passenger_id).raised)
        /\ UNCHANGED <<routeObjs, vehicleObjs, transport_system, new_system, file>>

\* transport_system.schedules.extend([Schedule(...)]).
ExtendSchedules ==
    \E schedule_id \in ScheduleIds, route_id \in ScheduleRouteIds,
       departure_time \in DepartureTimes, arrival_time \in ArrivalTimes :
        /\ Len(transport_system.schedules) < MaxSchedules
        /\ transport_system' =
              schedules_extend(transport_system,
                  <<Schedule(schedule_id, route_id, departure_time, arrival_time)>>)
        /\ result' = Result("schedules.extend", "")
        /\ UNCHANGED <<routeObjs, vehicleObjs, new_system, file>>

\* transport_system.save_to_json('transport_data.json').
SaveToJson ==
    /\ file' = save_to_json(routeObjs, vehicleObjs, transport_system)
    /\ result' = Result("save_to_json", "")
    /\ UNCHANGED <<routeObjs, vehicleObjs, transport_system, new_system>>

\* transport_system.load_from_json('transport_data.json').
LoadFromJson ==
    /\ LET call == load_from_json(routeObjs, vehicleObjs, transport_system, file)
       IN /\ Commit(call.rObjs, call.vObjs, call.self, new_system)
          /\ result' = Result("load_from_json", call.raised)
    /\ UNCHANGED file

\* new_system = TransportSystem(); new_system.load_from_json('transport_data.json')
LoadIntoNewSystem ==
    /\ LET call == load_from_json(routeObjs, vehicleObjs, TransportSystem, file)
       IN /\ Commit(call.rObjs, call.vObjs, transport_system, call.self)
          /\ result' = Result("new_system.load_from_json", call.raised)
    /\ UNCHANGED file

\* Files that something other than save_to_json left in the working
\* directory: dictionaries with and without the keys the loader reads.
VehicleData == Vehicle_to_dict(Vehicle(1, "NefAZ", 77, "Bus"))
VehicleDataNoCapacity == [vehicle_id |-> 1, model |-> "NefAZ", type |-> "Bus"]
RouteData ==
    [route_id |-> 2, number |-> "t77", start_point |-> "A", end_point |-> "C",
     vehicles |-> <<VehicleData>>]
RouteDataNoVehicles ==
    [route_id |-> 1, number |-> "t77", start_point |-> "A", end_point |-> "B"]
RouteDataNoEndPoint == [route_id |-> 1, number |-> "t77", start_point |-> "A"]
RouteDataBadVehicle ==
    [route_id |-> 1, number |-> "t77", start_point |-> "A", end_point |-> "B",
     vehicles |-> <<VehicleData, VehicleDataNoCapacity>>]
PassengerData == Passenger_to_dict(Passenger(2, "Ivan", "0021095222"))
PassengerDataNoCard == [passenger_id |-> 2, name |-> "Ivan"]
ScheduleData == Schedule_to_dict(Schedule(1, 3, "08:00", "08:45"))
ScheduleDataNoArrival ==
    [schedule_id |-> 1, route_id |-> 3, departure_time |-> "08:00"]

NoKeys == [key \in {} |-> <<>>]

ForeignData ==
    { NoKeys,
      [routes |-> <<RouteData>>],
      [routes |-> <<RouteDataNoVehicles, RouteData>>,
       passengers |-> <<PassengerData>>, schedules |-> <<ScheduleData>>],
      [routes |-> <<RouteData, RouteDataNoEndPoint>>,
       passengers |-> <<PassengerData>>, schedules |-> <<ScheduleData>>],
      [routes |-> <<RouteDataBadVehicle>>,
       passengers |-> <<PassengerData>>, schedules |-> <<ScheduleData>>],
      [routes |-> <<RouteData>>, passengers |-> <<PassengerDataNoCard>>,
       schedules |-> <<ScheduleData>>],
      [routes |-> <<RouteData>>, passengers |-> <<PassengerData>>,
       schedules |-> <<ScheduleDataNoArrival>>] }

ForeignFiles == {Malformed} \cup {JsonFile(json_dump(data)) : data \in ForeignData}

\* Something else writes 'transport_data.json'.
ForeignFile ==
    /\ \E f \in ForeignFiles : file' = f
    /\ result' = Result("foreign file", "")
    /\ UNCHANGED <<routeObjs, vehicleObjs, transport_system, new_system>>

Next ==
    \/ AddNewVehicle
    \/ AddSameVehicle
    \/ AddInvalidVehicle
    \/ RemoveVehicle
    \/ CreateNewRoute
    \/ CreateSameRoute
    \/ CreateInvalidRoute
    \/ ReadRoute
    \/ UpdateRoute
    \/ DeleteRoute
    \/ CreatePassenger
    \/ CreateInvalidPassenger
    \/ ReadPassenger
    \/ ExtendSchedules

Spec == Init /\ [][Next]_vars


\* The order of main(): the registry is built and changed first, then the file
\* is written and read into a new registry; once the file is there the
\* registry is only saved and loaded.
NextJson ==
    \/ ~file.exists /\ Next
    \/ SaveToJson
    \/ LoadIntoNewSystem

SpecJson == Init /\ [][NextJson]_vars

\* The registry is built and changed first; then it loads the file that it or
\* something else wrote.
NextLoad ==
    \/ ~file.exists /\ Next
    \/ ForeignFile
    \/ SaveToJson
    \/ LoadFromJson

SpecLoad == Init /\ [][NextLoad]_vars

\* ----------------------------------------------------------------- claims
\* The fields of a registry's entities, the routes with their vehicles' fields
\* in place of the references: two registries are field-for-field equal, in
\* the same order, when these are equal.
Fields(rObjs, vObjs, sys) ==
    [routes |-> [i \in DOMAIN sys.routes |->
                    LET route == rObjs[sys.routes[i]]
                    IN [route EXCEPT !.vehicles =
                           [j \in DOMAIN @ |-> vObjs[@[j]]]]],
     passengers |-> sys.passengers,
     schedules |-> sys.schedules]

\* The index of the first route of the registry with that id, 0 if none.
FirstRoute(route_id) ==
    IndexOf({i \in DOMAIN transport_system.routes :
                routeObjs[transport_system.routes[i]].route_id = route_id})

\* C10: in every reachable state the vehicle ids within one route's vehicle
\* list are pairwise distinct.
C10_VehicleIdsDistinct ==
    \A r \in DOMAIN routeObjs :
        LET vehicles == routeObjs[r].vehicles
        IN \A i, j \in DOMAIN vehicles :
              i # j => vehicleObjs[vehicles[i]].vehicle_id
                         # vehicleObjs[vehicles[j]].vehicle_id

\* C2: right after create_route(r) has returned, read_route(r.route_id)
\* returns a route equal to r, field for field, whatever routes the registry
\* already held.  (r is the route create_route appended.)
C2_CreateThenRead ==
    (result.op = "create_route" /\ result.raised = "") =>
        LET created == transport_system.routes[Len(transport_system.routes)]
            read == read_route(routeObjs, transport_system,
                               routeObjs[created].route_id)
        IN /\ read.raised = ""
           /\ routeObjs[read.ret] = routeObjs[created]

\* C3: when a route with the id exists, delete_route(id) removes exactly one
\* route (the list is one shorter, the other routes keep their order), and a
\* read_route(id) right after it fails with RouteNotFoundError.
C3_DeleteThenRead ==
    \A route_id \in RouteIds :
        FirstRoute(route_id) # 0 =>
            LET call == delete_route(routeObjs, transport_system, route_id)
            IN /\ call.raised = ""
               /\ \E i \in DOMAIN transport_system.routes :
                     call.self.routes = RemoveAt(transport_system.routes, i)
               /\ read_route(routeObjs, call.self, route_id).raised
                     = "RouteNotFoundError"

\* C5: remove_vehicle(id) on a route none of whose vehicles has the id fails
\* with VehicleNotFoundError and leaves the list as it is; otherwise the list
\* is one shorter, the element removed is the first whose id matches, and that
\* vehicle is nowhere in the list afterwards.
C5_RemoveVehicle ==
    \A r \in DOMAIN routeObjs, vehicle_id \in VehicleIds :
        LET vehicles == routeObjs[r].vehicles
            hits == {i \in DOMAIN vehicles :
                        vehicleObjs[vehicles[i]].vehicle_id = vehicle_id}
            call == remove_vehicle(routeObjs, vehicleObjs, r, vehicle_id)
            after == call.rObjs[r].vehicles
        IN IF hits = {}
           THEN call.raised = "VehicleNotFoundError" /\ after = vehicles
           ELSE /\ call.raised = ""
                /\ Len(after) = Len(vehicles) - 1
                /\ after = RemoveAt(vehicles, Min(hits))
                /\ vehicles[Min(hits)] \notin Range(after)

\* C9: a load_from_json that fails raises FileOperationError and leaves the
\* routes, passengers and schedules of the registry exactly as they were.
C9_LoadAllOrNothing ==
    [][(result'.op = "load_from_json" /\ result'.raised # "") =>
          /\ result'.raised = "FileOperationError"
          /\ Fields(routeObjs', vehicleObjs', transport_system')
                = Fields(routeObjs, vehicleObjs, transport_system)]_vars

\* C4: update_route(id, end_point=X) on an existing route changes that route's
\* end_point and nothing else: its other attributes and its vehicle list, the
\* other routes, the passengers and the schedules stay as they were; and an
\* update whose keys name no attribute of the route returns without raising
\* and changes nothing.
NoAttributeKwargs == {[color |-> "red"], [color |-> "red", seats |-> 40]}

C4_UpdateEndPointOnly ==
    \A route_id \in RouteIds :
        FirstRoute(route_id) # 0 =>
            LET r == transport_system.routes[FirstRoute(route_id)]
            IN /\ \A X \in EndPoints \cup {"X"} :
                    LET call == update_route(routeObjs, transport_system,
                                             route_id, [end_point |-> X])
                    IN /\ call.raised = ""
                       /\ call.rObjs = [routeObjs EXCEPT ![r].end_point = X]
                       /\ call.self = transport_system
               /\ \A kwargs \in NoAttributeKwargs :
                    LET call == update_route(routeObjs, transport_system,
                                             route_id, kwargs)
                    IN /\ call.raised = ""
                       /\ call.rObjs = routeObjs
                       /\ call.self = transport_system

\* An update_route has returned in a registry of two route objects, one with
\* the updated end point and one without, that holds vehicles, a passenger and
\* a schedule.
C4_Witness ==
    /\ result.op = "update_route" /\ result.raised = ""
    /\ Len(routeObjs) = 2
    /\ routeObjs[1].end_point # routeObjs[2].end_point
    /\ vehicleObjs # <<>>
    /\ transport_system.passengers # <<>>
    /\ transport_system.schedules # <<>>

\* C6: update_route(id, changes) fails with RouteNotFoundError and changes
\* nothing when no route has the id; otherwise every key of changes that names
\* an attribute of the route holds the supplied value after the call.
RouteAttributes == {"route_id", "number", "start_point", "end_point", "vehicles"}

OtherKwargs ==
    { [number |-> "t5", start_point |-> "Z"],
      [route_id |-> 9, number |-> "t5", start_point |-> "Z", end_point |-> "X",
       vehicles |-> <<>>],
      [number |-> "t5", color |-> "red"] }

Classes == {"Route", "Vehicle", "Passenger", "Schedule", "str"}

AppendedTo(before, after, x) ==
    /\ Len(after) = Len(before) + 1
    /\ SubSeq(after, 1, Len(before)) = before
    /\ after[Len(after)] = x

C8_CreateAppends ==
    /\ \A cls \in Classes, ref \in 1..(Len(routeObjs) + 1) :
          LET call == create_route(transport_system, [cls |-> cls, ref |-> ref])
          IN IF cls = "Route"
             THEN /\ call.raised = ""
                  /\ AppendedTo(transport_system.routes, call.self.routes, ref)
                  /\ call.self.passengers = transport_system.passengers
                  /\ call.self.schedules = transport_system.schedules
             ELSE call.raised = "InvalidDataError" /\ call.self = transport_system
    /\ \A cls \in Classes, passenger_id \in PassengerIds :
          LET passenger == Passenger(passenger_id, "Ivan", "0021095222")
              call == create_passenger(transport_system,
                                       [cls |-> cls, obj |-> passenger])
          IN IF cls = "Passenger"
             THEN /\ call.raised = ""
                  /\ AppendedTo(transport_system.passengers,
                                call.self.passengers, passenger)
                  /\ call.self.routes = transport_system.routes
                  /\ call.self.schedules = transport_system.schedules
             ELSE call.raised = "InvalidDataError" /\ call.self = transport_system
    /\ \A r \in DOMAIN routeObjs, cls \in Classes,
          ref \in 1..(Len(vehicleObjs) + 1) :
          LET call == add_vehicle(routeObjs, r, [cls |-> cls, ref |-> ref])
          IN IF cls = "Vehicle"
             THEN /\ call.raised = ""
                  /\ AppendedTo(routeObjs[r].vehicles, call.rObjs[r].vehicles, ref)
                  /\ call.rObjs = [routeObjs EXCEPT ![r].vehicles = call.rObjs[r].vehicles]
             ELSE call.raised = "InvalidDataError" /\ call.rObjs = routeObjs

\* A create_route has returned and left a second route with the id of the
\* first, in a registry with a passenger and a route that holds two vehicles
\* of one id.
C8_Witness ==
    /\ result.op = "create_route" /\ result.raised = ""
    /\ Len(transport_system.routes) = 2
    /\ routeObjs[transport_system.routes[1]].route_id
          = routeObjs[transport_system.routes[2]].route_id
    /\ transport_system.passengers # <<>>
    /\ \E r \in DOMAIN routeObjs :
          /\ Len(routeObjs[r].vehicles) = 2
          /\ vehicleObjs[routeObjs[r].vehicles[1]].vehicle_id
                = vehicleObjs[routeObjs[r].vehicles[2]].vehicle_id

\* C7: a load_from_json that returns leaves in routes, passengers and
\* schedules exactly the entities of the file, in the order of the file, all of
\* them new objects and none of those held before the call; a top-level key
\* the file lacks leaves its collection empty.
FileEntities(f) ==
    LET data == json_load(f.text)
        vehicle(d) == [vehicle_id |-> d.vehicle_id, model |-> d.model,
                       capacity |-> d.capacity, type |-> d.type]
        route(d) ==
            [route_id |-> d.route_id, number |-> d.number,
             start_point |-> d.start_point, end_point |-> d.end_point,
             vehicles |-> IF "vehicles" \in DOMAIN d
                          THEN [j \in DOMAIN d.vehicles |-> vehicle(d.vehicles[j])]
                          ELSE <<>>]
    IN [routes |-> IF "routes" \in DOMAIN data
                   THEN [i \in DOMAIN data.routes |-> route(data.routes[i])]
                   ELSE <<>>,
        passengers |-> IF "passengers" \in DOMAIN data THEN data.passengers ELSE <<>>,
        schedules |-> IF "schedules" \in DOMAIN data THEN data.schedules ELSE <<>>]

C7_LoadReplaces ==
    [][(result'.op = "load_from_json" /\ result'.raised = "") =>
          /\ Fields(routeObjs', vehicleObjs', transport_system') = FileEntities(file)
          /\ LET call == load_from_json(routeObjs, vehicleObjs,
                                        transport_system, file)
                 loaded == Range(call.self.routes)
             IN /\ loaded \cap DOMAIN routeObjs = {}
                /\ \A r \in loaded :
                      Range(call.rObjs[r].vehicles) \cap DOMAIN vehicleObjs = {}
                /\ \A r \in DOMAIN routeObjs : call.rObjs[r] = routeObjs[r]
                /\ new_system' = new_system]_vars

\* A load_from_json has returned from a file that has the key routes and
\* lacks the keys passengers and schedules: the registry holds the route of the
\* file and nothing else.
C7_Witness ==
    /\ result.op = "load_from_json" /\ result.raised = ""
    /\ file = JsonFile(json_dump([routes |-> <<RouteData>>]))
    /\ Len(transport_system.routes) = 1
    /\ routeObjs[transport_system.routes[1]].route_id = 2
    /\ transport_system.passengers = <<>>
    /\ transport_system.schedules = <<>>

\* C1: save_to_json of a registry built by create_route, create_passenger,
\* appended schedules, add_vehicle, remove_vehicle, update_route and
\* delete_route, followed by load_from_json on a new registry, returns and
\* gives routes, passengers and schedules equal to the original's field by
\* field and in order, each route's vehicles included.
C1_RoundTrip ==
    [][(/\ result'.op = "new_system.load_from_json"
        /\ file = save_to_json(routeObjs, vehicleObjs, transport_system)) =>
          /\ result'.raised = ""
          /\ Fields(routeObjs', vehicleObjs', new_system')
                = Fields(routeObjs, vehicleObjs, transport_system)
          /\ Fields(routeObjs', vehicleObjs', transport_system')
                = Fields(routeObjs, vehicleObjs, transport_system)]_vars

\* The new registry has loaded the file that save_to_json wrote of a registry
\* with two routes, two vehicles in one route, a passenger and a schedule.
C1_Witness ==
    /\ result.op = "new_system.load_from_json" /\ result.raised = ""
    /\ file = save_to_json(routeObjs, vehicleObjs, transport_system)
    /\ Len(new_system.routes) = 2
    /\ \E i \in DOMAIN new_system.routes :
          Len(routeObjs[new_system.routes[i]].vehicles) = 2
    /\ new_system.passengers # <<>>
    /\ new_system.schedules # <<>>
    /\ Range(new_system.routes) \cap Range(transport_system.routes) = {}
====
